---- MODULE Spec2Model ----
(***************************************************************************)
(* verification/verify_renderer.py: run() drives one headless browser      *)
(* session against the ChromeCam Studio application and leaves a           *)
(* screenshot.  The model follows run() call by call.  Every call into the *)
(* browser-automation library either returns or raises; writes to standard *)
(* output are taken to succeed.  The target application is fixed for the   *)
(* whole behaviour, so that successive runs meet the same target.          *)
(***************************************************************************)
EXTENDS Integers, Sequences, FiniteSets, TLC

\* Number of successive executions of the script that are explored.
MaxRuns == 2

\* page.wait_for_selector("video", timeout=10000)
SelectorTimeout == 10000
\* page.wait_for_timeout(3000)
RenderDelay == 3000

ExpectedTitle == "ChromeCam Studio"
AppUrl == "http://localhost:3002/"
RunningPath == "verification/running.png"
ErrorPath == "verification/error.png"
Paths == {RunningPath, ErrorPath}

\* Titles the target may serve, and the times (ms after load) at which its
\* video element may appear.
Titles == {"ChromeCam Studio", "Other App", "ChromeCam Studio - Settings"}
VideoDelays == {0, 5000, 15000}

Targets ==
    { t \in [reachable : BOOLEAN, title : Titles, hasVideo : BOOLEAN, videoAt : VideoDelays] :
        ~t.hasVideo => t.videoAt = 0 }

\* The calls run() makes into the library, in program order.
TrySteps == {"goto", "title", "video", "delay", "running_shot"}
PageOps == TrySteps \cup {"error_shot"}
Ops == {"launch", "new_page"} \cup PageOps \cup {"close"}

\* expect(page).to_have_title("ChromeCam Studio")
TitleMatches(title) == title = ExpectedTitle

\* page.wait_for_selector("video", timeout=10000)
VideoAppears(t) == t.hasVideo /\ t.videoAt < SelectorTimeout

VARIABLES
    target,     \* the application behind AppUrl
    runs,       \* executions of the script started so far
    pc,         \* position of the current execution inside run()
    driver,     \* the sync_playwright() context: "stopped" or "running"
    browser,    \* the local `browser`: "none", "open" or "closed"
    page,       \* the local `page`: "none", "about:blank" or the URL it shows
    sessions,   \* browser sessions open in the system (survives a run)
    trace,      \* library calls of the current run, with their outcome
    prevTrace,  \* the trace of the previous run
    files,      \* image files present on disk (survives a run)
    prevFiles,  \* the files present when the current run started
    written,    \* how often the current run wrote each path
    log,        \* lines the current run printed
    caught,     \* the exception bound to `e` in the handler, by failing call
    exc,        \* the exception propagating out of the current position
    escaped,    \* the exception that left run(), "none" if it returned
    elapsed     \* time the current run spent in its explicit waits

vars == <<target, runs, pc, driver, browser, page, sessions, trace, prevTrace,
          files, prevFiles, written, log, caught, exc, escaped, elapsed>>

-----------------------------------------------------------------------------
\* What a run has done so far, read off its trace and its log

RunEnded == pc = "done"

Calls(op) == Cardinality({i \in DOMAIN trace : trace[i].op = op})
Succeeded(op) == \E i \in DOMAIN trace : trace[i].op = op /\ trace[i].ok
Failed(op) == \E i \in DOMAIN trace : trace[i].op = op /\ ~trace[i].ok
AllOk(tr) == \A i \in DOMAIN tr : tr[i].ok
Logged(line) == \E i \in DOMAIN log : log[i] = line

\* A target that serves the expected title and shows a video element in time.
Healthy(t) == t.reachable /\ TitleMatches(t.title) /\ VideoAppears(t)

-----------------------------------------------------------------------------
\* Control flow of run()

\* A run that finds the success image on disk does nothing.
EntryPoint_SkipWhenCaptured == IF RunningPath \in files THEN "exit" ELSE "launch"

\* The first call of a run.
EntryPoint == "launch"

\* The handler's screenshot placed in the finally clause: it also runs after the
\* success screenshot.
OnReturn_HandlerInFinally(op) ==
    CASE op = "launch"       -> "new_page"
      [] op = "new_page"     -> "goto"
      [] op = "goto"         -> "title"
      [] op = "title"        -> "video"
      [] op = "video"        -> "delay"
      [] op = "delay"        -> "running_shot"
      [] op = "running_shot" -> "error_shot"
      [] op = "error_shot"   -> "close"
      [] op = "close"        -> "exit"

\* The fixed delay left out: the screenshot follows the selector wait.
OnReturn_SkipDelay(op) ==
    CASE op = "launch"       -> "new_page"
      [] op = "new_page"     -> "goto"
      [] op = "goto"         -> "title"
      [] op = "title"        -> "video"
      [] op = "video"        -> "running_shot"
      [] op = "delay"        -> "running_shot"
      [] op = "running_shot" -> "close"
      [] op = "error_shot"   -> "close"
      [] op = "close"        -> "exit"

\* browser.close() moved in front of the success screenshot.
OnReturn_CloseEarly(op) ==
    CASE op = "launch"       -> "new_page"
      [] op = "new_page"     -> "goto"
      [] op = "goto"         -> "title"
      [] op = "title"        -> "video"
      [] op = "video"        -> "delay"
      [] op = "delay"        -> "close"
      [] op = "running_shot" -> "exit"
      [] op = "error_shot"   -> "close"
      [] op = "close"        -> IF Succeeded("delay") /\ Calls("running_shot") = 0
                                THEN "running_shot" ELSE "exit"

\* Where control goes when call `op` returns.
OnReturn(op) ==
    CASE op = "launch"       -> "new_page"
      [] op = "new_page"     -> "goto"
      [] op = "goto"         -> "title"
      [] op = "title"        -> "video"
      [] op = "video"        -> "delay"
      [] op = "delay"        -> "running_shot"
      [] op = "running_shot" -> "close"
      [] op = "error_shot"   -> "close"
      [] op = "close"        -> "exit"

\* try/finally without the except clause: a failure goes straight to the
\* finally clause and propagates.
OnRaise_NoHandler(op) ==
    CASE op \in TrySteps     -> "close"
      [] op = "error_shot"   -> "close"
      [] OTHER               -> "exit"

\* A failed title assertion that is ignored: the run goes on to the video wait.
OnRaise_ContinueAfterTitle(op) ==
    CASE op = "title"        -> "video"
      [] op \in TrySteps     -> "error_shot"
      [] op = "error_shot"   -> "close"
      [] OTHER               -> "exit"

\* A failed navigation that is tried a second time.
OnRaise_RetryGoto(op) ==
    CASE op = "goto" /\ Calls("goto") = 0 -> "goto"
      [] op \in TrySteps     -> "error_shot"
      [] op = "error_shot"   -> "close"
      [] OTHER               -> "exit"

\* Where control goes when call `op` raises: the calls of the try block go to
\* the handler, the handler's own call goes to the finally clause, and the calls
\* outside the try statement leave the with block.
OnRaise(op) ==
    CASE op \in TrySteps     -> "error_shot"
      [] op = "error_shot"   -> "close"
      [] OTHER               -> "exit"

\* page.screenshot(path=...) replaces whatever is at the path.
WriteFile(fs, path) == fs \cup {path}

\* A call that returned (ok) or raised (~ok): the position moves, and a raised
\* exception is either bound by the handler or propagates.
Step(op, ok) ==
    /\ trace' = Append(trace, [op |-> op, ok |-> ok])
    /\ pc' = IF ok THEN OnReturn(op) ELSE OnRaise(op)
    /\ IF ok
       THEN UNCHANGED <<caught, exc>>
       ELSE IF OnRaise(op) = "error_shot"
            THEN caught' = op /\ UNCHANGED exc
            ELSE exc' = op /\ UNCHANGED caught

-----------------------------------------------------------------------------
Init ==
    /\ target \in Targets
    /\ runs = 0
    /\ pc = "idle"
    /\ driver = "stopped"
    /\ browser = "none"
    /\ page = "none"
    /\ sessions = 0
    /\ trace = <<>>
    /\ prevTrace = <<>>
    /\ files = {}
    /\ prevFiles = {}
    /\ written = [p \in Paths |-> 0]
    /\ log = <<>>
    /\ caught = "none"
    /\ exc = "none"
    /\ escaped = "none"
    /\ elapsed = 0

\* The script is started: run() is entered with fresh locals and the
\* sync_playwright() context is opened.
StartRun ==
    /\ pc \in {"idle", "done"}
    /\ runs < MaxRuns
    /\ runs' = runs + 1
    /\ pc' = EntryPoint
    /\ driver' = "running"
    /\ browser' = "none"
    /\ page' = "none"
    /\ prevTrace' = trace
    /\ trace' = <<>>
    /\ prevFiles' = files
    /\ written' = [p \in Paths |-> 0]
    /\ log' = <<>>
    /\ caught' = "none"
    /\ exc' = "none"
    /\ escaped' = "none"
    /\ elapsed' = 0
    /\ UNCHANGED <<target, sessions, files>>

\* browser = p.chromium.launch(headless=True, args=[...])
Launch ==
    /\ pc = "launch"
    /\ \E ok \in BOOLEAN :
        /\ Step("launch", ok)
        /\ browser' = IF ok THEN "open" ELSE browser
        /\ sessions' = IF ok THEN sessions + 1 ELSE sessions
    /\ UNCHANGED <<target, runs, driver, page, prevTrace, files, prevFiles,
                   written, log, escaped, elapsed>>

\* page = browser.new_page()
NewPage ==
    /\ pc = "new_page"
    /\ \E ok \in BOOLEAN :
        /\ Step("new_page", ok)
        /\ page' = IF ok THEN "about:blank" ELSE page
    /\ UNCHANGED <<target, runs, driver, browser, sessions, prevTrace, files,
                   prevFiles, written, log, escaped, elapsed>>

\* print("Navigating to app..."); page.goto("http://localhost:3002/")
Goto ==
    /\ pc = "goto"
    /\ log' = Append(log, "Navigating to app...")
    /\ \E ok \in BOOLEAN :
        /\ ok => target.reachable
        /\ Step("goto", ok)
        /\ page' = IF ok THEN AppUrl ELSE page
    /\ UNCHANGED <<target, runs, driver, browser, sessions, prevTrace, files,
                   prevFiles, written, escaped, elapsed>>

\* print("Waiting for title..."); expect(page).to_have_title("ChromeCam Studio")
ExpectTitle ==
    /\ pc = "title"
    /\ log' = Append(log, "Waiting for title...")
    /\ Step("title", TitleMatches(target.title))
    /\ UNCHANGED <<target, runs, driver, browser, page, sessions, prevTrace,
                   files, prevFiles, written, escaped, elapsed>>

\* print("Waiting for video element..."); page.wait_for_selector("video", timeout=10000)
WaitForSelector ==
    /\ pc = "video"
    /\ log' = Append(log, "Waiting for video element...")
    /\ Step("video", VideoAppears(target))
    /\ elapsed' = elapsed + (IF VideoAppears(target) THEN target.videoAt
                                                     ELSE SelectorTimeout)
    /\ UNCHANGED <<target, runs, driver, browser, page, sessions, prevTrace,
                   files, prevFiles, written, escaped>>

\* print("Waiting for render loop..."); page.wait_for_timeout(3000)
WaitForTimeout ==
    /\ pc = "delay"
    /\ log' = Append(log, "Waiting for render loop...")
    /\ \E ok \in BOOLEAN :
        /\ Step("delay", ok)
        /\ elapsed' = IF ok THEN elapsed + RenderDelay ELSE elapsed
    /\ UNCHANGED <<target, runs, driver, browser, page, sessions, prevTrace,
                   files, prevFiles, written, escaped>>

\* page.screenshot(path="verification/running.png"); print("Running screenshot taken")
ScreenshotRunning ==
    /\ pc = "running_shot"
    /\ \E ok \in BOOLEAN :
        /\ Step("running_shot", ok)
        /\ files' = IF ok THEN WriteFile(files, RunningPath) ELSE files
        /\ written' = IF ok THEN [written EXCEPT ![RunningPath] = @ + 1] ELSE written
        /\ log' = IF ok THEN Append(log, "Running screenshot taken") ELSE log
    /\ UNCHANGED <<target, runs, driver, browser, page, sessions, prevTrace,
                   prevFiles, escaped, elapsed>>

\* except Exception as e: print(f"Error: {e}"); page.screenshot(path="verification/error.png")
ScreenshotError ==
    /\ pc = "error_shot"
    /\ log' = Append(log, "Error: " \o caught)
    /\ \E ok \in BOOLEAN :
        /\ Step("error_shot", ok)
        /\ files' = IF ok THEN WriteFile(files, ErrorPath) ELSE files
        /\ written' = IF ok THEN [written EXCEPT ![ErrorPath] = @ + 1] ELSE written
    /\ UNCHANGED <<target, runs, driver, browser, page, sessions, prevTrace,
                   prevFiles, escaped, elapsed>>

\* finally: browser.close()
BrowserClose ==
    /\ pc = "close"
    /\ \E ok \in BOOLEAN :
        /\ Step("close", ok)
        /\ browser' = IF ok THEN "closed" ELSE browser
        /\ sessions' = IF ok THEN sessions - 1 ELSE sessions
    /\ UNCHANGED <<target, runs, driver, page, prevTrace, files, prevFiles,
                   written, log, escaped, elapsed>>

\* The with block is left: the context is stopped, and an exception that is
\* propagating leaves run().
PlaywrightExit ==
    /\ pc = "exit"
    /\ driver' = "stopped"
    /\ escaped' = exc
    /\ pc' = "done"
    /\ UNCHANGED <<target, runs, browser, page, sessions, trace, prevTrace,
                   files, prevFiles, written, log, caught, exc, elapsed>>

Next ==
    \/ StartRun
    \/ Launch
    \/ NewPage
    \/ Goto
    \/ ExpectTitle
    \/ WaitForSelector
    \/ WaitForTimeout
    \/ ScreenshotRunning
    \/ ScreenshotError
    \/ BrowserClose
    \/ PlaywrightExit

Spec == Init /\ [][Next]_vars

-----------------------------------------------------------------------------
TypeOK ==
    /\ target \in Targets
    /\ runs \in 0..MaxRuns
    /\ pc \in {"idle", "exit", "done"} \cup Ops
    /\ driver \in {"stopped", "running"}
    /\ browser \in {"none", "open", "closed"}
    /\ page \in {"none", "about:blank", AppUrl}
    /\ sessions \in 0..MaxRuns
    /\ files \subseteq Paths
    /\ caught \in {"none"} \cup TrySteps
    /\ exc \in {"none"} \cup Ops
    /\ escaped \in {"none"} \cup Ops

-----------------------------------------------------------------------------
\* Properties of run()

ImagesWritten == written[RunningPath] + written[ErrorPath]

C3_NoExceptionEscapes ==
    RunEnded /\ Succeeded("new_page") /\ Succeeded("close") => escaped = "none"

\* C4 as stated: a run that has ended has written exactly one of running.png and
\* error.png.
C4_ExactlyOneImage ==
    RunEnded => ImagesWritten = 1

\* C4 amended: a run never writes both images nor one of them twice; it ends
\* having written none exactly when launch, new_page or the error.png capture
\* failed, and running.png exactly when the running.png capture succeeded.
C4_AtMostOneImage ==
    /\ ImagesWritten <= 1
    /\ RunEnded =>
        /\ ImagesWritten = 0 <=>
               Failed("launch") \/ Failed("new_page") \/ Failed("error_shot")
        /\ written[RunningPath] = 1 <=> Succeeded("running_shot")

C4_Witness ==
    /\ RunEnded
    /\ Failed("goto")
    /\ Failed("error_shot")
    /\ ImagesWritten = 0

\* C5: against a healthy target, a run whose navigation succeeded and whose delay
\* and running.png capture did not fail writes running.png and not error.png;
\* and running.png is written only after goto, the title assertion, the video
\* wait and the 3000 ms delay have each returned, in that order.
C5_HealthyRunCapturesRunning ==
    /\ ( /\ RunEnded
         /\ Healthy(target)
         /\ Succeeded("goto")
         /\ ~Failed("delay")
         /\ ~Failed("running_shot") )
       => /\ written[RunningPath] = 1
          /\ written[ErrorPath] = 0
          /\ RunningPath \in files
    /\ written[RunningPath] > 0 =>
          /\ Len(trace) >= 7
          /\ \A i \in 1..7 : trace[i].ok
          /\ [i \in 1..5 |-> trace[i + 2].op]
                = <<"goto", "title", "video", "delay", "running_shot">>
          /\ Healthy(target)
          /\ elapsed = target.videoAt + RenderDelay

C5_Witness ==
    /\ RunEnded
    /\ Healthy(target)
    /\ target.videoAt = 5000
    /\ written[RunningPath] = 1
    /\ written[ErrorPath] = 0

\* What C6 says of the step `op` at which a run fails: `op` raised and none of
\* the calls in `later` was made.
FailsAt(op, later) ==
    /\ Failed(op)
    /\ \A l \in later : Calls(l) = 0
    /\ written[RunningPath] = 0

\* C6 as stated: after a successful navigation, a wrong title fails the run at
\* the title assertion, and a right title without a video element fails it at
\* the selector wait; no later step runs and the run produces error.png.
C6_FailedStepProducesError ==
    RunEnded /\ Succeeded("goto") =>
        /\ ~TitleMatches(target.title) =>
               FailsAt("title", {"video", "delay", "running_shot"})
                   /\ written[ErrorPath] = 1
        /\ TitleMatches(target.title) /\ ~VideoAppears(target) =>
               FailsAt("video", {"delay", "running_shot"})
                   /\ written[ErrorPath] = 1

\* C6 amended: ... no later step runs, the next call is the error.png capture
\* (after the full selector timeout when the video wait failed), and the run
\* produces error.png exactly when that capture succeeds.
C6_FailedStepEndsSequence ==
    RunEnded /\ Succeeded("goto") =>
        /\ ~TitleMatches(target.title) =>
               /\ FailsAt("title", {"video", "delay", "running_shot"})
               /\ trace[5].op = "error_shot"
               /\ written[ErrorPath] = 1 <=> Succeeded("error_shot")
        /\ TitleMatches(target.title) /\ ~VideoAppears(target) =>
               /\ FailsAt("video", {"delay", "running_shot"})
               /\ elapsed = SelectorTimeout
               /\ trace[6].op = "error_shot"
               /\ written[ErrorPath] = 1 <=> Succeeded("error_shot")

C6_Witness ==
    /\ RunEnded
    /\ target.title = "Other App"
    /\ Failed("title")
    /\ Calls("video") = 0
    /\ written[ErrorPath] = 1

\* C7: a run that launched a session ends with the session closed, having
\* passed through Success (running.png captured) or Failure (error.png
\* captured).
C7_EndsClosedViaOutcome ==
    RunEnded /\ Succeeded("launch") =>
        /\ browser = "closed"
        /\ ImagesWritten = 1

\* C8: when two successive runs against the same healthy target both have no
\* failing call, the second makes the same calls in the same order as the first,
\* overwrites running.png, and leaves the disk as the first run left it.
C8_SecondRunRepeatsFirst ==
    ( /\ RunEnded
      /\ runs >= 2
      /\ prevTrace # <<>>
      /\ AllOk(prevTrace)
      /\ AllOk(trace) )
    => /\ trace = prevTrace
       /\ log = <<"Navigating to app...", "Waiting for title...",
                  "Waiting for video element...", "Waiting for render loop...",
                  "Running screenshot taken">>
       /\ RunningPath \in prevFiles
       /\ written[RunningPath] = 1
       /\ files = prevFiles
       /\ escaped = "none"

C8_Witness ==
    /\ RunEnded
    /\ runs = 2
    /\ Healthy(target)
    /\ Len(prevTrace) = 8
    /\ AllOk(prevTrace)
    /\ trace = prevTrace
    /\ written[RunningPath] = 1

\* C9: within one run every call (launch, new_page, goto, title assertion, video
\* wait, delay, either capture, close) is made at most once.
C9_NoRetry ==
    \A op \in Ops : Calls(op) <= 1

C9_Witness ==
    /\ RunEnded
    /\ Failed("goto")
    /\ Calls("goto") = 1
    /\ Calls("error_shot") = 1
    /\ Calls("close") = 1

\* C10: browser.close() is called only after the running.png capture returned
\* or the error.png capture was attempted, no page call follows it, and a page
\* call is only ever pending on the page of an open session.
C10_CloseIsLast ==
    /\ \A k \in DOMAIN trace :
        trace[k].op = "close" =>
            /\ \E i \in 1..(k - 1) :
                \/ trace[i].op = "running_shot" /\ trace[i].ok
                \/ trace[i].op = "error_shot"
            /\ \A i \in (k + 1)..Len(trace) : trace[i].op \notin PageOps
    /\ pc \in PageOps => browser = "open" /\ page # "none"

C10_Witness ==
    /\ RunEnded
    /\ Failed("running_shot")
    /\ Calls("error_shot") = 1
    /\ Succeeded("close")
    /\ browser = "closed"

====
